---- MODULE Spec2Model ----
(***************************************************************************)
(* Binance AI Agent: the FastAPI service of src/BinanceAgent/api.py, the   *)
(* agent wrapper of src/BinanceAgent/agent.py and the tool adapters of     *)
(* src/BinanceAgent/langchain_tools.py.                                    *)
(*                                                                         *)
(* Spec      : the HTTP surface.  Requests are coroutines on one event     *)
(*             loop; a handler runs atomically up to its await of          *)
(*             agent.achat, and every later step is one model round-trip   *)
(*             of the executor, the last of which also runs the rest of    *)
(*             the handler (there is no await after achat returns).        *)
(* FairSpec  : the same steps with weak fairness of the model's answers,   *)
(*             for runs of MaxFairRequests requests.                       *)
(* SpecTools : the three tool adapters applied to one exchange reply.      *)
(* SpecKlines: the historical-data adapter applied to replies of more      *)
(*             candles than it shows.                                      *)
(***************************************************************************)
EXTENDS Integers, Sequences, FiniteSets, TLC

\* Number of requests the server receives in one run.
MaxRequests == 3

\* AgentExecutor(max_iterations=5)
max_iterations == 5

HTTP_200_OK == 200
HTTP_500_INTERNAL_SERVER_ERROR == 500
HTTP_503_SERVICE_UNAVAILABLE == 503

\* The thread ids the clients of the repository use.
ThreadIds == {123, 456}
\* A text is the tuple of its pieces, so that f-strings can be built.
Questions == {<<"q1">>, <<"q2">>}
Symbols == {"BTCUSDT"}
Concepts == {"staking"}

\* What the hosted model can answer with, and how the executor can fail.
Answers == {<<"a1">>}
Exceptions == {"LLMTransportError"}

RequestIds == 1..MaxRequests

VARIABLES
    GEMINI_API_KEY,          \* settings.GEMINI_API_KEY
    startup,                 \* "pending", "complete" or "failed"
    agent,                   \* the module global: "None" or "BinanceLangChainAgent"
    conversation_histories,  \* dict thread_id -> list of turns
    requests,                \* the coroutine of each request: its locals and response
    tool_call,               \* SpecTools: the adapter call made
    observation              \* SpecTools: the string the adapter returned

http_vars == <<GEMINI_API_KEY, startup, agent, conversation_histories, requests>>
tool_vars == <<tool_call, observation>>
vars == <<GEMINI_API_KEY, startup, agent, conversation_histories, requests,
          tool_call, observation>>

----------------------------------------------------------------------------
(* Python values *)

\* d.get(k, default) on a dict modelled as a function
get(d, k, default) == IF k \in DOMAIN d THEN d[k] ELSE default

\* list.append
append(list, x) == Append(list, x)

IsPrefix(s, t) == Len(s) <= Len(t) /\ SubSeq(t, 1, Len(s)) = s

\* a coroutine that was not started
NoRequest == [endpoint |-> "none", pc |-> "idle"]

----------------------------------------------------------------------------
(* agent.py *)

\* what self.agent_executor.ainvoke can do in one call
ExecutorReturns == {[output |-> a] : a \in Answers} \cup {[intermediate_steps |-> <<>>]}

\* the executor's answer when the iteration cap ends the loop
StoppedResponse == [output |-> <<"Agent stopped due to max iterations.">>]

\* an except clause that reports the failure as a success
achat_swallows(outcome) ==
    IF outcome.kind = "raise"
    THEN [output |-> <<"Error processing request: ", outcome.e>>,
          success |-> TRUE]
    ELSE [output |-> get(outcome.result, "output", <<"I couldn't process your request.">>),
          success |-> TRUE]

\* BinanceLangChainAgent.achat: outcome is what the executor did
achat(outcome) ==
    IF outcome.kind = "raise"
    THEN [output |-> <<"Error processing request: ", outcome.e>>,
          success |-> FALSE,
          error |-> outcome.e]
    ELSE [output |-> get(outcome.result, "output", <<"I couldn't process your request.">>),
          success |-> TRUE]

\* BinanceLangChainAgent.chat: the same code around the blocking invoke
chat(outcome) ==
    IF outcome.kind = "raise"
    THEN [output |-> <<"Error processing request: ", outcome.e>>,
          success |-> FALSE,
          error |-> outcome.e]
    ELSE [output |-> get(outcome.result, "output", <<"I couldn't process your request.">>),
          success |-> TRUE]

\* everything one executor call can end in
ExecutorOutcomes ==
    {[kind |-> "final", result |-> x] : x \in ExecutorReturns}
    \cup {[kind |-> "stopped", result |-> StoppedResponse]}
    \cup {[kind |-> "raise", e |-> x] : x \in Exceptions}

\* an achat that starts every executor call without history
ChatHistoryArg_dropped(histories, ref) == [kind |-> "new"]

\* "chat_history or []" (agent.py:117): a missing or empty list is replaced by
\* a new empty list; any other list is handed to the executor as the same
\* object, so the executor reads the stored list itself.
ChatHistoryArg(histories, ref) ==
    IF ref.kind = "None" THEN [kind |-> "new"]
    ELSE IF histories[ref.thread_id] = <<>> THEN [kind |-> "new"]
    ELSE ref

\* The turns the executor reads through the reference it was handed.
ChatHistoryOf(r) ==
    IF r.chat_history.kind = "stored"
    THEN conversation_histories[r.chat_history.thread_id]
    ELSE <<>>

----------------------------------------------------------------------------
(* api.py: models and responses *)

Unbound == [unbound |-> TRUE]

\* ChatResponse(**kwargs): response, success and thread_id are required
\* fields, error defaults to None.
ChatResponse(kwargs) ==
    IF {"response", "success", "thread_id"} \subseteq DOMAIN kwargs
    THEN [ok |-> TRUE,
          value |-> [response |-> kwargs.response,
                     success |-> kwargs.success,
                     thread_id |-> kwargs.thread_id,
                     error |-> get(kwargs, "error", "None")]]
    ELSE [ok |-> FALSE, e |-> "ValidationError: thread_id field required"]

HTTPException(status_code, detail) ==
    [status_code |-> status_code, body |-> [detail |-> detail]]

\* the value a handler returns, or the HTTPException of its except clause
Returned(model) ==
    IF model.ok
    THEN [status_code |-> HTTP_200_OK, body |-> model.value]
    ELSE HTTPException(HTTP_500_INTERNAL_SERVER_ERROR, model.e)

\* request i arrives: requests are numbered in their order of arrival
Arrives(i) ==
    /\ requests[i].pc = "idle"
    /\ i > 1 => requests[i - 1].pc # "idle"

\* a coroutine that has returned: its response, with what achat gave it
Responded(endpoint, body, outcome, result, response) ==
    [endpoint |-> endpoint, pc |-> "responded", body |-> Unbound,
     message |-> <<>>, chat_history |-> [kind |-> "None"], iterations |-> 0,
     outcome |-> outcome, result |-> result, response |-> response]

Awaiting(endpoint, body, message, chat_history) ==
    [endpoint |-> endpoint, pc |-> "awaiting", body |-> body,
     message |-> message, chat_history |-> chat_history, iterations |-> 0,
     outcome |-> "none", result |-> Unbound, response |-> Unbound]

NotInitialized(i, endpoint, body) ==
    /\ requests' = [requests EXCEPT ![i] =
           Responded(endpoint, body, "none", Unbound,
               HTTPException(HTTP_503_SERVICE_UNAVAILABLE, "Agent not initialized"))]
    /\ UNCHANGED conversation_histories

----------------------------------------------------------------------------
(* api.py: startup and the endpoints up to their await *)

\* Settings.validate_config: the API key is required
validate_config == GEMINI_API_KEY # ""

\* The startup hook.  The handlers below are routes of the app object and can
\* be driven whether or not this hook has run or succeeded (an ASGI client
\* that skips the lifespan); that is the state their "agent is None" checks
\* are written for, so requests are received in every startup state.

startup_event ==
    /\ startup = "pending"
    /\ IF validate_config
       THEN agent' = "BinanceLangChainAgent" /\ startup' = "complete"
       ELSE agent' = agent /\ startup' = "failed"
    /\ UNCHANGED <<GEMINI_API_KEY, conversation_histories, requests, tool_vars>>

root(i) ==
    /\ Arrives(i)
    /\ requests' = [requests EXCEPT ![i] =
           Responded("/", Unbound, "none", Unbound,
               [status_code |-> HTTP_200_OK,
                body |-> [message |-> "Binance AI Agent API", docs |-> "/docs"]])]
    /\ UNCHANGED <<GEMINI_API_KEY, startup, agent, conversation_histories, tool_vars>>

health_check(i) ==
    /\ Arrives(i)
    /\ requests' = [requests EXCEPT ![i] =
           Responded("/health", Unbound, "none", Unbound,
               [status_code |-> HTTP_200_OK,
                body |-> [status |-> "healthy", model |-> "gemini-2.0-flash"]])]
    /\ UNCHANGED <<GEMINI_API_KEY, startup, agent, conversation_histories, tool_vars>>

\* a handler that starts every request with a new list
GetOrCreate_always_new(histories, thread_id) ==
    [t \in DOMAIN histories \cup {thread_id} |->
        IF t = thread_id THEN <<>> ELSE histories[t]]

\* "if request.thread_id not in conversation_histories: ... = []"
GetOrCreate(histories, thread_id) ==
    IF thread_id \in DOMAIN histories
    THEN histories
    ELSE [t \in DOMAIN histories \cup {thread_id} |->
             IF t = thread_id THEN <<>> ELSE histories[t]]

invocations(i, thread_id, question) ==
    /\ Arrives(i)
    /\ LET body == [thread_id |-> thread_id, question |-> question] IN
       IF agent = "None"
       THEN NotInitialized(i, "/invocations", body)
       ELSE LET histories == GetOrCreate(conversation_histories, thread_id)
                chat_history == [kind |-> "stored", thread_id |-> thread_id]
            IN /\ conversation_histories' = histories
               /\ requests' = [requests EXCEPT ![i] =
                      Awaiting("/invocations", body, question,
                               ChatHistoryArg(histories, chat_history))]
    /\ UNCHANGED <<GEMINI_API_KEY, startup, agent, tool_vars>>

\* an endpoint without its "agent is None" check
Templated_unchecked(i, endpoint, body, message) ==
    /\ Arrives(i)
    /\ requests' = [requests EXCEPT ![i] =
           Awaiting(endpoint, body, message,
                    ChatHistoryArg(conversation_histories, [kind |-> "None"]))]
    /\ UNCHANGED conversation_histories
    /\ UNCHANGED <<GEMINI_API_KEY, startup, agent, tool_vars>>

\* the four endpoints that call agent.achat(message) with a templated message
Templated(i, endpoint, body, message) ==
    /\ Arrives(i)
    /\ IF agent = "None"
       THEN NotInitialized(i, endpoint, body)
       ELSE /\ requests' = [requests EXCEPT ![i] =
                   Awaiting(endpoint, body, message,
                            ChatHistoryArg(conversation_histories, [kind |-> "None"]))]
            /\ UNCHANGED conversation_histories
    /\ UNCHANGED <<GEMINI_API_KEY, startup, agent, tool_vars>>

analyze_market(i, symbol) ==
    Templated(i, "/analyze-market", [symbol |-> symbol],
        <<"Please analyze the market for ", symbol, ". Include current price, ...">>)

get_price(i, symbol) ==
    Templated(i, "/price", [symbol |-> symbol],
        <<"What is the current price of ", symbol, "?">>)

get_historical_data(i, symbol, interval, limit) ==
    Templated(i, "/historical-data",
        [symbol |-> symbol, interval |-> interval, limit |-> limit],
        <<"Get historical data for ", symbol, " with ", interval, " interval and ",
          limit, " candles. ...">>)

explain_concept(i, concept) ==
    Templated(i, "/explain", [concept |-> concept],
        <<"Please explain the following cryptocurrency/trading concept: ", concept>>)

----------------------------------------------------------------------------
(* api.py: the rest of a handler, run when achat returns *)

\* a handler that keeps one list for all threads
invocations_resume_shared(i, outcome) ==
    LET r == requests[i]
        result == achat(outcome)
        thread_id == r.body.thread_id
    IN /\ conversation_histories' =
              [t \in DOMAIN conversation_histories |->
                  append(append(conversation_histories[t],
                                <<"human", r.body.question>>),
                         <<"assistant", result["output"]>>)]
       /\ requests' = [requests EXCEPT ![i] =
              Responded(r.endpoint, r.body, outcome.kind, result,
                  Returned(ChatResponse(
                      [response |-> result["output"],
                       success |-> result["success"],
                       thread_id |-> thread_id,
                       error |-> get(result, "error", "None")])))]

\* a handler that records only the exchanges that succeeded
invocations_resume_success_only(i, outcome) ==
    LET r == requests[i]
        result == achat(outcome)
        thread_id == r.body.thread_id
        history == append(append(conversation_histories[thread_id],
                                 <<"human", r.body.question>>),
                          <<"assistant", result["output"]>>)
    IN /\ conversation_histories' =
              IF result["success"]
              THEN [conversation_histories EXCEPT ![thread_id] = history]
              ELSE conversation_histories
       /\ requests' = [requests EXCEPT ![i] =
              Responded(r.endpoint, r.body, outcome.kind, result,
                  Returned(ChatResponse(
                      [response |-> result["output"],
                       success |-> result["success"],
                       thread_id |-> thread_id,
                       error |-> get(result, "error", "None")])))]

\* a handler that turns a failure of the agent into an HTTP error
invocations_resume_failure_is_500(i, outcome) ==
    LET r == requests[i]
        result == achat(outcome)
        thread_id == r.body.thread_id
        history == append(append(conversation_histories[thread_id],
                                 <<"human", r.body.question>>),
                          <<"assistant", result["output"]>>)
    IN /\ conversation_histories' =
              [conversation_histories EXCEPT ![thread_id] = history]
       /\ requests' = [requests EXCEPT ![i] =
              Responded(r.endpoint, r.body, outcome.kind, result,
                  IF result["success"]
                  THEN Returned(ChatResponse(
                           [response |-> result["output"],
                            success |-> result["success"],
                            thread_id |-> thread_id,
                            error |-> get(result, "error", "None")]))
                  ELSE HTTPException(HTTP_500_INTERNAL_SERVER_ERROR, result["error"]))]

\* a handler with a suspension point between its two appends: resumed with its
\* question still to store it appends the human turn and suspends again,
\* resumed after that it appends the assistant turn and returns
invocations_resume_suspends_between(i, outcome) ==
    LET r == requests[i]
        result == achat(outcome)
        thread_id == r.body.thread_id
    IN IF r.message # <<>>
       THEN /\ conversation_histories' =
                   [conversation_histories EXCEPT ![thread_id] =
                       append(@, <<"human", r.body.question>>)]
            /\ requests' = [requests EXCEPT ![i].message = <<>>]
       ELSE /\ conversation_histories' =
                   [conversation_histories EXCEPT ![thread_id] =
                       append(@, <<"assistant", result["output"]>>)]
            /\ requests' = [requests EXCEPT ![i] =
                   Responded(r.endpoint, r.body, outcome.kind, result,
                       Returned(ChatResponse(
                           [response |-> result["output"],
                            success |-> result["success"],
                            thread_id |-> thread_id,
                            error |-> get(result, "error", "None")])))]

\* api.py:131-145
invocations_resume(i, outcome) ==
    LET r == requests[i]
        result == achat(outcome)
        thread_id == r.body.thread_id
        history == append(append(conversation_histories[thread_id],
                                 <<"human", r.body.question>>),
                          <<"assistant", result["output"]>>)
    IN /\ conversation_histories' =
              [conversation_histories EXCEPT ![thread_id] = history]
       /\ requests' = [requests EXCEPT ![i] =
              Responded(r.endpoint, r.body, outcome.kind, result,
                  Returned(ChatResponse(
                      [response |-> result["output"],
                       success |-> result["success"],
                       thread_id |-> thread_id,
                       error |-> get(result, "error", "None")])))]

\* a templated endpoint that records its exchange like /invocations does
templated_resume_records(i, outcome) ==
    LET r == requests[i]
        result == achat(outcome)
        histories == GetOrCreate(conversation_histories, 0)
    IN /\ requests' = [requests EXCEPT ![i] =
              Responded(r.endpoint, r.body, outcome.kind, result,
                  Returned(ChatResponse(
                      [response |-> result["output"],
                       success |-> result["success"],
                       error |-> get(result, "error", "None")])))]
       /\ conversation_histories' =
              [histories EXCEPT ![0] =
                  append(append(@, <<"human", r.message>>),
                         <<"assistant", result["output"]>>)]

\* api.py:164-175, 191-202, 218-229, 245-256
templated_resume(i, outcome) ==
    LET r == requests[i]
        result == achat(outcome)
    IN /\ requests' = [requests EXCEPT ![i] =
              Responded(r.endpoint, r.body, outcome.kind, result,
                  Returned(ChatResponse(
                      [response |-> result["output"],
                       success |-> result["success"],
                       error |-> get(result, "error", "None")])))]
       /\ UNCHANGED conversation_histories

Resume(i, outcome) ==
    IF requests[i].endpoint = "/invocations"
    THEN invocations_resume(i, outcome)
    ELSE templated_resume(i, outcome)

----------------------------------------------------------------------------
(* agent.py: one model round-trip of the executor *)

\* an executor built without an iteration cap
should_continue_uncapped(iterations) == TRUE

\* the loop runs while iterations < max_iterations
should_continue(iterations) == iterations < max_iterations

\* an event loop that resumes the requests of one thread in their order of
\* arrival
Runnable_in_arrival_order(i) ==
    /\ requests[i].pc = "awaiting"
    /\ \A j \in 1..(i - 1) :
           (requests[j].pc = "awaiting" /\ requests[i].endpoint = "/invocations"
            /\ requests[j].endpoint = "/invocations")
           => requests[j].body.thread_id # requests[i].body.thread_id

\* the coroutine of request i is suspended in "await agent.achat(...)": the
\* event loop resumes it whenever its model call completes, whatever other
\* coroutines are suspended
Runnable(i) == requests[i].pc = "awaiting"

\* the model gives its final answer: ainvoke returns
ModelAnswers(i, result) ==
    /\ Runnable(i)
    /\ should_continue(requests[i].iterations)
    /\ Resume(i, [kind |-> "final", result |-> result])
    /\ UNCHANGED <<GEMINI_API_KEY, startup, agent, tool_vars>>

\* the model asks for tools: they run, the iteration is counted, and the loop
\* either calls the model again or stops with the executor's stop answer
ModelRequestsTool(i) ==
    /\ Runnable(i)
    /\ should_continue(requests[i].iterations)
    /\ LET iterations == requests[i].iterations + 1 IN
       IF should_continue(iterations)
       THEN /\ requests' = [requests EXCEPT ![i].iterations = iterations]
            /\ UNCHANGED conversation_histories
       ELSE Resume(i, [kind |-> "stopped", result |-> StoppedResponse])
    /\ UNCHANGED <<GEMINI_API_KEY, startup, agent, tool_vars>>

\* the model call or a tool call raises out of the executor
ExecutorRaises(i, e) ==
    /\ Runnable(i)
    /\ should_continue(requests[i].iterations)
    /\ Resume(i, [kind |-> "raise", e |-> e])
    /\ UNCHANGED <<GEMINI_API_KEY, startup, agent, tool_vars>>

AgentStep(i) ==
    \/ \E result \in ExecutorReturns : ModelAnswers(i, result)
    \/ ModelRequestsTool(i)
    \/ \E e \in Exceptions : ExecutorRaises(i, e)

----------------------------------------------------------------------------
(* the HTTP service *)

Init ==
    /\ GEMINI_API_KEY \in {"", "key"}
    /\ startup = "pending"
    /\ agent = "None"
    /\ conversation_histories = [t \in {} |-> <<>>]
    /\ requests = [i \in RequestIds |-> NoRequest]
    /\ tool_call = Unbound
    /\ observation = Unbound

\* the steps of the service when the requests numbered in Ids are received
Serve(Ids) ==
    \/ startup_event
    \/ \E i \in Ids : root(i)
    \/ \E i \in Ids : health_check(i)
    \/ \E i \in Ids, t \in ThreadIds, q \in Questions : invocations(i, t, q)
    \/ \E i \in Ids, s \in Symbols : analyze_market(i, s)
    \/ \E i \in Ids, s \in Symbols : get_price(i, s)
    \/ \E i \in Ids, s \in Symbols : get_historical_data(i, s, "1h", 100)
    \/ \E i \in Ids, c \in Concepts : explain_concept(i, c)
    \/ \E i \in Ids, result \in ExecutorReturns : ModelAnswers(i, result)
    \/ \E i \in Ids : ModelRequestsTool(i)
    \/ \E i \in Ids, e \in Exceptions : ExecutorRaises(i, e)

Next == Serve(RequestIds)

Spec == Init /\ [][Next]_vars

\* Number of requests in the runs that are followed to their end.
MaxFairRequests == 1

FairNext == Serve(1..MaxFairRequests)

\* every awaited model call completes: it returns or it raises
FairSpec ==
    /\ Init
    /\ [][FairNext]_vars
    /\ \A i \in RequestIds : WF_vars(AgentStep(i))

----------------------------------------------------------------------------
(* langchain_tools.py: the Market Data Client *)

\* str.upper on the symbols used
upper(symbol) == IF symbol = "btcusdt" THEN "BTCUSDT" ELSE symbol

Return(value) == [kind |-> "return", value |-> value]
Raise(e) == [kind |-> "raise", e |-> e]

\* the exchange's maximum number of candles per request
MaxKlinesLimit == 1000

min(a, b) == IF a < b THEN a ELSE b

\* requests.get(url, params) followed by response.raise_for_status() and
\* response.json(): reply is what the network and the exchange did
http_get_json(reply) ==
    IF reply.kind = "network_fault" THEN Raise("ConnectionError")
    ELSE IF reply.status_code >= 400 THEN Raise("HTTPError")
    ELSE Return(reply.json)

get_price_request(symbol) ==
    [url |-> "/api/v3/ticker/price", params |-> [symbol |-> upper(symbol)]]

get_24h_ticker_request(symbol) ==
    [url |-> "/api/v3/ticker/24hr", params |-> [symbol |-> upper(symbol)]]

\* a client that sends the caller's limit as it is
get_klines_request_unclamped(symbol, interval, limit) ==
    [url |-> "/api/v3/klines",
     params |-> [symbol |-> upper(symbol), interval |-> interval, limit |-> limit]]

get_klines_request(symbol, interval, limit) ==
    [url |-> "/api/v3/klines",
     params |-> [symbol |-> upper(symbol), interval |-> interval,
                 limit |-> min(limit, MaxKlinesLimit)]]

BinancePublicAPI_get_price(symbol, reply) == http_get_json(reply)
BinancePublicAPI_get_24h_ticker(symbol, reply) == http_get_json(reply)
BinancePublicAPI_get_klines(symbol, interval, limit, reply) == http_get_json(reply)

----------------------------------------------------------------------------
(* langchain_tools.py: the tool adapters *)

\* float(x) / int(x) of a JSON string: [num |-> n] is the text of the number
\* n, anything else does not parse
float(x) == IF "num" \in DOMAIN x THEN Return(x.num) ELSE Raise("ValueError")

\* data[key]
getitem(data, key) == IF key \in DOMAIN data THEN Return(data[key]) ELSE Raise("KeyError")

\* float(data[key])
float_field(data, key) ==
    IF getitem(data, key).kind = "raise" THEN getitem(data, key)
    ELSE float(getitem(data, key).value)

\* the string a tool returns: plain text as its pieces, json.dumps as the object
Text(pieces) == [kind |-> "text", pieces |-> pieces]
Json(value) == [kind |-> "json", value |-> value]

\* "Error" in s
ContainsError(s) ==
    s.kind = "text" /\ \E k \in DOMAIN s.pieces : s.pieces[k] = "Error"

\* GetCurrentPriceTool._run
GetCurrentPriceTool_run(symbol, reply) ==
    LET data == BinancePublicAPI_get_price(symbol, reply)
        price == IF data.kind = "raise" THEN data ELSE float_field(data.value, "price")
    IN IF price.kind = "return"
       THEN Text(<<"Current price of ", upper(symbol), ": $", ToString(price.value), ".00">>)
       ELSE Text(<<"Error", " getting price for ", symbol, ": ", price.e>>)

TickerFields == <<"symbol", "lastPrice", "priceChange", "priceChangePercent",
                  "highPrice", "lowPrice", "volume", "quoteVolume", "count",
                  "openPrice">>

\* the first field of the summary that cannot be built, in the order the dict
\* literal evaluates them
RECURSIVE FirstTickerError(_, _)
FirstTickerError(data, k) ==
    IF k > Len(TickerFields) THEN Return(TRUE)
    ELSE LET key == TickerFields[k]
             v == IF key = "symbol" THEN getitem(data, key) ELSE float_field(data, key)
         IN IF v.kind = "raise" THEN v ELSE FirstTickerError(data, k + 1)

\* GetMarketSummaryTool._run
GetMarketSummaryTool_run(symbol, reply) ==
    LET data == BinancePublicAPI_get_24h_ticker(symbol, reply)
        ok == IF data.kind = "raise" THEN data ELSE FirstTickerError(data.value, 1)
    IN IF ok.kind = "return"
       THEN LET d == data.value IN
            Json([symbol |-> d.symbol,
                  current_price |-> d.lastPrice.num,
                  price_change_24h |-> d.priceChange.num,
                  price_change_percent_24h |-> d.priceChangePercent.num,
                  high_24h |-> d.highPrice.num,
                  low_24h |-> d.lowPrice.num,
                  volume_24h |-> d.volume.num,
                  quote_volume_24h |-> d.quoteVolume.num,
                  number_of_trades |-> d.count.num,
                  open_price |-> d.openPrice.num,
                  close_price |-> d.lastPrice.num])
       ELSE Text(<<"Error", " getting market summary for ", symbol, ": ", ok.e>>)

\* klines[-10:]
RecentCandlesShown == 10

Last(seq, n) ==
    IF Len(seq) <= n THEN seq ELSE SubSeq(seq, Len(seq) - n + 1, Len(seq))

\* k[j] for j = 0..5 exists and parses (a candle is a list of at least 6 items)
CandleOk(k) == Len(k) >= 6

RECURSIVE Sum(_)
Sum(seq) == IF seq = <<>> THEN 0 ELSE Head(seq) + Sum(Tail(seq))

Max(S) == CHOOSE x \in S : \A y \in S : y <= x
Min(S) == CHOOSE x \in S : \A y \in S : x <= y

Column(klines, j) == [n \in 1..Len(klines) |-> klines[n][j]]
Range(seq) == {seq[n] : n \in 1..Len(seq)}

\* a float division that gives inf or nan for a zero divisor
truediv_ieee(a, b) == Return([num |-> a, den |-> b])

\* a / b on floats: the quotient as [num, den], ZeroDivisionError when b is 0
truediv(a, b) ==
    IF b = 0 THEN Raise("ZeroDivisionError") ELSE Return([num |-> a, den |-> b])

\* an adapter that computes its statistics over the candles it shows
HistoricalData_of_recent(symbol, interval, limit, reply) ==
    LET got == BinancePublicAPI_get_klines(symbol, interval, limit, reply)
        klines == got.value
        failure ==
            IF got.kind = "raise" THEN got.e
            ELSE IF \E n \in 1..Len(klines) : ~CandleOk(klines[n]) THEN "IndexError"
            ELSE IF klines = <<>> THEN "IndexError"
            ELSE IF truediv(Last(klines, RecentCandlesShown)[Len(Last(klines, RecentCandlesShown))][5]
                              - Last(klines, RecentCandlesShown)[1][2],
                            Last(klines, RecentCandlesShown)[1][2]).kind = "raise"
                 THEN "ZeroDivisionError"
            ELSE "none"
    IN IF failure = "none"
       THEN LET recent == Last(klines, RecentCandlesShown)
                first_open == recent[1][2]
                last_close == recent[Len(recent)][5]
            IN Return([symbol |-> upper(symbol),
                     interval |-> interval,
                     total_candles |-> Len(klines),
                     recent_candles |->
                         [n \in 1..Len(recent) |->
                            LET k == recent[n] IN
                            [timestamp |-> k[1], open |-> k[2], high |-> k[3],
                             low |-> k[4], close |-> k[5], volume |-> k[6]]],
                     statistics |->
                        [highest_price |-> Max(Range(Column(recent, 3))),
                         lowest_price |-> Min(Range(Column(recent, 4))),
                         average_volume |->
                             [num |-> Sum(Column(recent, 6)), den |-> Len(recent)],
                         price_change |-> last_close - first_open,
                         price_change_percent |->
                             LET q == truediv(last_close - first_open, first_open).value
                             IN [num |-> q.num * 100, den |-> q.den]]])
       ELSE Raise(failure)

\* GetHistoricalDataTool._run, the body of its try: the summary, or the
\* exception raised on the way to it
HistoricalData(symbol, interval, limit, reply) ==
    LET got == BinancePublicAPI_get_klines(symbol, interval, limit, reply)
        klines == got.value
        failure ==
            IF got.kind = "raise" THEN got.e
            ELSE IF \E n \in 1..Len(klines) : ~CandleOk(klines[n]) THEN "IndexError"
            ELSE IF klines = <<>> THEN "IndexError"
            ELSE IF truediv(klines[Len(klines)][5] - klines[1][2], klines[1][2]).kind = "raise"
                 THEN "ZeroDivisionError"
            ELSE "none"
    IN IF failure = "none"
       THEN LET first_open == klines[1][2]
                last_close == klines[Len(klines)][5]
            IN Return([symbol |-> upper(symbol),
                     interval |-> interval,
                     total_candles |-> Len(klines),
                     recent_candles |->
                         [n \in 1..Len(Last(klines, RecentCandlesShown)) |->
                            LET k == Last(klines, RecentCandlesShown)[n] IN
                            [timestamp |-> k[1], open |-> k[2], high |-> k[3],
                             low |-> k[4], close |-> k[5], volume |-> k[6]]],
                     statistics |->
                        [highest_price |-> Max(Range(Column(klines, 3))),
                         lowest_price |-> Min(Range(Column(klines, 4))),
                         average_volume |->
                             [num |-> Sum(Column(klines, 6)), den |-> Len(klines)],
                         price_change |-> last_close - first_open,
                         price_change_percent |->
                             LET q == truediv(last_close - first_open, first_open).value
                             IN [num |-> q.num * 100, den |-> q.den]]])
       ELSE Raise(failure)

\* an adapter without its except clause
GetHistoricalDataTool_run_no_except(symbol, interval, limit, reply) ==
    LET result == HistoricalData(symbol, interval, limit, reply)
    IN IF result.kind = "return" THEN Json(result.value) ELSE result

\* GetHistoricalDataTool._run
GetHistoricalDataTool_run(symbol, interval, limit, reply) ==
    LET result == HistoricalData(symbol, interval, limit, reply)
    IN IF result.kind = "return"
       THEN Json(result.value)
       ELSE Text(<<"Error", " getting historical data for ", symbol, ": ", result.e>>)

----------------------------------------------------------------------------
(* the tool adapters applied to one reply of the exchange *)

MaxCandles == 2

ToolSymbols == {"BTCUSDT", "btcusdt", "ZZZINVALID"}

Failures == {[kind |-> "network_fault"],
             [kind |-> "response", status_code |-> 400,
              json |-> [code |-> "-1121", msg |-> "Invalid symbol."]]}

Ok(json) == [kind |-> "response", status_code |-> 200, json |-> json]

PriceReplies ==
    Failures \cup
    {Ok([symbol |-> "BTCUSDT", price |-> [num |-> p]]) : p \in {1, 50000}} \cup
    {Ok([symbol |-> "BTCUSDT"]),
     Ok([symbol |-> "BTCUSDT", price |-> [text |-> "n/a"]])}

Ticker(last, count) ==
    [symbol |-> "BTCUSDT", lastPrice |-> last, priceChange |-> [num |-> 5],
     priceChangePercent |-> [num |-> 1], highPrice |-> [num |-> 60000],
     lowPrice |-> [num |-> 40000], volume |-> [num |-> 100],
     quoteVolume |-> [num |-> 200], count |-> count, openPrice |-> [num |-> 49995]]

TickerReplies ==
    Failures \cup
    {Ok(Ticker([num |-> 50000], [num |-> 7])),
     Ok(Ticker([text |-> "n/a"], [num |-> 7])),
     Ok(Ticker([num |-> 50000], [text |-> "n/a"])),
     Ok([symbol |-> "BTCUSDT", lastPrice |-> [num |-> 50000]])}

Candles ==
    {<<1, o, h, 5, c, v>> : o \in {0, 10}, h \in {10, 20}, c \in {10, 15}, v \in {100, 300}}
    \cup {<<1, 10>>}

Limits == {1, 100, 1000, 1001, 5000}

\* the adapter is called and its request is on the way to the exchange
Sent(call) == [call EXCEPT !.reply = [kind |-> "pending", json |-> <<>>]]

CallPrice(symbol) ==
    /\ tool_call = Unbound
    /\ tool_call' = Sent([name |-> "get_current_price", symbol |-> symbol,
                          request |-> get_price_request(symbol), reply |-> Unbound])
    /\ UNCHANGED <<observation, http_vars>>

CallMarketSummary(symbol) ==
    /\ tool_call = Unbound
    /\ tool_call' = Sent([name |-> "get_market_summary", symbol |-> symbol,
                          request |-> get_24h_ticker_request(symbol), reply |-> Unbound])
    /\ UNCHANGED <<observation, http_vars>>

CallHistoricalData(symbol, interval, limit) ==
    /\ tool_call = Unbound
    /\ tool_call' = Sent([name |-> "get_historical_data", symbol |-> symbol,
                          interval |-> interval, limit |-> limit,
                          request |-> get_klines_request(symbol, interval, limit),
                          reply |-> Unbound])
    /\ UNCHANGED <<observation, http_vars>>

Pending(name) ==
    /\ "name" \in DOMAIN tool_call
    /\ tool_call.name = name
    /\ tool_call.reply.kind = "pending"

\* the exchange puts one more candle into its reply
ExchangeAddsCandle(k) ==
    /\ Pending("get_historical_data")
    /\ Len(tool_call.reply.json) < MaxCandles
    /\ tool_call' = [tool_call EXCEPT !.reply.json = Append(@, k)]
    /\ UNCHANGED <<observation, http_vars>>

\* requests.get returns or raises, and the adapter runs to its end
PriceReturns(reply) ==
    /\ Pending("get_current_price")
    /\ tool_call' = [tool_call EXCEPT !.reply = reply]
    /\ observation' = GetCurrentPriceTool_run(tool_call.symbol, reply)
    /\ UNCHANGED http_vars

MarketSummaryReturns(reply) ==
    /\ Pending("get_market_summary")
    /\ tool_call' = [tool_call EXCEPT !.reply = reply]
    /\ observation' = GetMarketSummaryTool_run(tool_call.symbol, reply)
    /\ UNCHANGED http_vars

HistoricalDataReturns(reply) ==
    /\ Pending("get_historical_data")
    /\ tool_call' = [tool_call EXCEPT !.reply = reply]
    /\ observation' = GetHistoricalDataTool_run(tool_call.symbol, tool_call.interval,
                                                tool_call.limit, reply)
    /\ UNCHANGED http_vars

NextTools ==
    \/ \E s \in ToolSymbols : CallPrice(s)
    \/ \E s \in ToolSymbols : CallMarketSummary(s)
    \/ \E s \in ToolSymbols, l \in Limits : CallHistoricalData(s, "1h", l)
    \/ \E k \in Candles : ExchangeAddsCandle(k)
    \/ \E reply \in PriceReplies : PriceReturns(reply)
    \/ \E reply \in TickerReplies : MarketSummaryReturns(reply)
    \/ \E reply \in Failures : HistoricalDataReturns(reply)
    \/ HistoricalDataReturns(Ok(tool_call.reply.json))

SpecTools == Init /\ [][NextTools]_vars

----------------------------------------------------------------------------
(* the historical-data adapter applied to a reply longer than what it shows *)

\* Number of candles in the longest reply.
MaxKlines == 12

\* two candles that differ in every price and in their volume
KlineSamples == {<<1, 10, 20, 5, 15, 100>>, <<2, 12, 30, 4, 18, 300>>}

\* the exchange puts one more candle into a reply of up to MaxKlines candles
ExchangeAddsKline(k) ==
    /\ Pending("get_historical_data")
    /\ Len(tool_call.reply.json) < MaxKlines
    /\ tool_call' = [tool_call EXCEPT !.reply.json = Append(@, k)]
    /\ UNCHANGED <<observation, http_vars>>

NextKlines ==
    \/ CallHistoricalData("BTCUSDT", "1h", 100)
    \/ \E k \in KlineSamples : ExchangeAddsKline(k)
    \/ HistoricalDataReturns(Ok(tool_call.reply.json))

SpecKlines == Init /\ [][NextKlines]_vars

----------------------------------------------------------------------------
(* Properties of the conversation store *)

IsInvocation(r) == r.endpoint = "/invocations"

\* request i, addressed to thread B, takes a step: it arrives or it resumes
StepOn(i, B) ==
    \/ /\ requests[i].pc = "idle"
       /\ requests'[i].pc = "awaiting"
       /\ IsInvocation(requests'[i])
       /\ requests'[i].body.thread_id = B
    \/ /\ requests[i].pc = "awaiting"
       /\ requests'[i].pc # "awaiting" \/ requests'[i].iterations # requests[i].iterations
       /\ IsInvocation(requests[i])
       /\ requests[i].body.thread_id = B

\* thread A has the same turns before and after the step
SameHistory(A) ==
    IF A \in DOMAIN conversation_histories
    THEN A \in DOMAIN conversation_histories'
         /\ conversation_histories'[A] = conversation_histories[A]
    ELSE A \notin DOMAIN conversation_histories'

\* C1: thread isolation.  A step of a request addressed to thread B leaves the
\* stored history of every other thread A as it was, and the history the
\* executor reads for a request on B is the list stored under B (or a new
\* empty list), never another thread's.
C1_ThreadIsolation ==
    /\ [][\A i \in RequestIds, B \in ThreadIds :
             StepOn(i, B) => \A A \in ThreadIds \ {B} : SameHistory(A)]_vars
    /\ [](\A i \in RequestIds :
             (requests[i].pc = "awaiting" /\ IsInvocation(requests[i])) =>
                 /\ requests[i].chat_history.kind = "stored" =>
                        requests[i].chat_history.thread_id = requests[i].body.thread_id
                 /\ IsPrefix(ChatHistoryOf(requests[i]),
                             conversation_histories[requests[i].body.thread_id]))

\* both threads of the repository's chat test hold turns: two requests were
\* answered on 123 and one on 456
C1_Witness ==
    /\ DOMAIN conversation_histories = {123, 456}
    /\ Len(conversation_histories[123]) = 4
    /\ Len(conversation_histories[456]) = 2
    /\ conversation_histories[456][1] # conversation_histories[123][1]

\* C2: append-only history.  In every step each stored thread stays in the
\* store and its history before the step is a prefix of its history after it.
C2_AppendOnly ==
    [][\A t \in DOMAIN conversation_histories :
          /\ t \in DOMAIN conversation_histories'
          /\ IsPrefix(conversation_histories[t], conversation_histories'[t])]_vars

\* a thread that was appended to twice, while a third request on it is in flight
C2_Witness ==
    \E t \in DOMAIN conversation_histories :
        /\ Len(conversation_histories[t]) = 4
        /\ \E i \in RequestIds :
              /\ requests[i].pc = "awaiting"
              /\ IsInvocation(requests[i])
              /\ requests[i].body.thread_id = t

----------------------------------------------------------------------------
(* Properties of the agent *)

InFlight(i) == requests[i].pc = "awaiting"
Done(i) == requests[i].pc = "responded"

\* request i has an answer of achat: the executor returned or raised
AgentReturned(i) == Done(i) /\ requests[i].outcome # "none"

\* C3: the reasoning loop is bounded and ends.  While an invocation waits for
\* the model it has completed fewer than 5 round-trips, each answer of the
\* model either ends the invocation or counts one more round-trip, and (the
\* model answering every call) every invocation ends.
C3_LoopBoundedAndTerminates ==
    /\ [](\A i \in RequestIds : InFlight(i) => requests[i].iterations < max_iterations)
    /\ [][\A i \in RequestIds :
             (InFlight(i) /\ requests'[i] # requests[i]) =>
                 \/ requests'[i].pc = "responded"
                 \/ /\ requests'[i].pc = "awaiting"
                    /\ requests'[i].iterations = requests[i].iterations + 1]_vars
    /\ \A i \in RequestIds : InFlight(i) ~> Done(i)

\* an invocation ended by the cap: the model asked for tools on all 5 turns
C3_Witness ==
    \E i \in RequestIds : Done(i) /\ requests[i].outcome = "stopped"

\* C4: iteration exhaustion is reported as a failure (as stated): an
\* invocation ended by the 5-iteration cap gives success = false and an error.
C4_ExhaustionIsFailure ==
    \A i \in RequestIds :
        (Done(i) /\ requests[i].outcome = "stopped") =>
            /\ requests[i].result["success"] = FALSE
            /\ "error" \in DOMAIN requests[i].result

\* the shape of a result of chat / achat
WellFormedResult(outcome, result) ==
    /\ {"output", "success"} \subseteq DOMAIN result
    /\ result["success"] \in BOOLEAN
    /\ result["success"] = FALSE <=> outcome = "raise"
    /\ result["success"] = FALSE =>
           "error" \in DOMAIN result /\ result["error"] \in Exceptions

\* C5: chat and achat never raise.  Whatever the executor did, the handler
\* holds a result with an output and a success flag; success is false exactly
\* when the executor raised, and then the error detail is present.
C5_ChatNeverRaises ==
    /\ \A i \in RequestIds :
           AgentReturned(i) => WellFormedResult(requests[i].outcome, requests[i].result)
    /\ \A o \in ExecutorOutcomes : WellFormedResult(o.kind, chat(o))

\* the executor raised and the caller got success = false with the error
C5_Witness ==
    \E i \in RequestIds :
        /\ AgentReturned(i)
        /\ requests[i].outcome = "raise"
        /\ requests[i].result["success"] = FALSE
        /\ requests[i].result["error"] = "LLMTransportError"

----------------------------------------------------------------------------
(* Properties of the tool adapters *)

\* an adapter was called and has returned
Called == "name" \in DOMAIN tool_call /\ tool_call.reply.kind # "pending"

\* the Market Data Client call failed: network fault or an error status
ClientFailed ==
    \/ tool_call.reply.kind = "network_fault"
    \/ tool_call.reply.kind = "response" /\ tool_call.reply.status_code >= 400

\* the reply was delivered but lacks what the adapter reshapes
CannotReshape ==
    /\ tool_call.reply.kind = "response"
    /\ tool_call.reply.status_code = 200
    /\ \/ /\ tool_call.name = "get_current_price"
          /\ "price" \notin DOMAIN tool_call.reply.json
       \/ /\ tool_call.name = "get_market_summary"
          /\ \E k \in DOMAIN TickerFields : TickerFields[k] \notin DOMAIN tool_call.reply.json
       \/ /\ tool_call.name = "get_historical_data"
          /\ Len(tool_call.reply.json) = 0

\* C6: the tool adapters never propagate an exception.  Every call of an
\* adapter returns a string, and when the client call failed or its result
\* could not be reshaped that string contains "Error".
C6_AdaptersReturnErrorText ==
    Called =>
        /\ observation.kind \in {"text", "json"}
        /\ (ClientFailed \/ CannotReshape) => ContainsError(observation)

\* the exchange answered the historical-data call with no candles and the
\* adapter returned its error text
C6_Witness ==
    /\ Called
    /\ tool_call.name = "get_historical_data"
    /\ CannotReshape
    /\ observation = Text(<<"Error", " getting historical data for ",
                            tool_call.symbol, ": ", "IndexError">>)

----------------------------------------------------------------------------
(* Properties of the HTTP surface *)

TemplatedEndpoints == {"/analyze-market", "/price", "/historical-data", "/explain"}
PostEndpoints == TemplatedEndpoints \cup {"/invocations"}
GetEndpoints == {"/", "/health"}

IsTemplated(r) == r.endpoint \in TemplatedEndpoints

\* request i is received in this step
Received(i) == requests[i].pc = "idle" /\ requests'[i].pc # "idle"

\* request i resumes in this step: the model answered its executor
Resumed(i) ==
    /\ requests[i].pc = "awaiting"
    /\ requests'[i].pc # "awaiting" \/ requests'[i].iterations # requests[i].iterations

\* C7: the templated endpoints are stateless.  No step of a request to
\* /analyze-market, /price, /historical-data or /explain changes the
\* conversation store, and its executor reads an empty history.
C7_TemplatedStateless ==
    /\ [][\A i \in RequestIds :
             \/ Received(i) /\ IsTemplated(requests'[i])
             \/ Resumed(i) /\ IsTemplated(requests[i])
             => conversation_histories' = conversation_histories]_vars
    /\ [](\A i \in RequestIds :
             (InFlight(i) /\ IsTemplated(requests[i])) =>
                 /\ requests[i].chat_history.kind = "new"
                 /\ ChatHistoryOf(requests[i]) = <<>>)

\* a templated request was answered by the agent, and another one is in
\* flight, while the store holds a thread with turns
C7_Witness ==
    /\ \E t \in DOMAIN conversation_histories : Len(conversation_histories[t]) = 2
    /\ \E i \in RequestIds : IsTemplated(requests[i]) /\ AgentReturned(i)
    /\ \E i \in RequestIds : IsTemplated(requests[i]) /\ InFlight(i)

\* C8: the templated endpoints answer in the shape of /invocations (as
\* stated): once the agent returned a result, the response is a 200 whose body
\* has response, success, thread_id and error, with the agent's output and
\* success flag.
C8_TemplatedResponseShape ==
    \A i \in RequestIds :
        (IsTemplated(requests[i]) /\ AgentReturned(i)) =>
            /\ requests[i].response.status_code = HTTP_200_OK
            /\ DOMAIN requests[i].response.body =
                   {"response", "success", "thread_id", "error"}
            /\ requests[i].response.body.response = requests[i].result["output"]
            /\ requests[i].response.body.success = requests[i].result["success"]

Answered(t) ==
    {i \in RequestIds :
        /\ IsInvocation(requests[i])
        /\ AgentReturned(i)
        /\ requests[i].response.body.thread_id = t}

\* C10: every answered /invocations request appends two turns.  The step in
\* which achat returns, with success true or false, extends the addressed
\* thread by (human, question) and then (assistant, output); so every stored
\* history has two turns per answered request, alternating human, assistant.
C10_TwoTurnsPerRequest ==
    /\ [][\A i \in RequestIds :
             (Resumed(i) /\ IsInvocation(requests[i]) /\ requests'[i].pc = "responded") =>
                 LET t == requests[i].body.thread_id IN
                 conversation_histories'[t] =
                     conversation_histories[t] \o
                         << <<"human", requests[i].body.question>>,
                            <<"assistant", requests'[i].result["output"]>> >>]_vars
    /\ [](\A t \in DOMAIN conversation_histories :
             /\ Len(conversation_histories[t]) = 2 * Cardinality(Answered(t))
             /\ \A k \in 1..Len(conversation_histories[t]) :
                    conversation_histories[t][k][1] =
                        IF k % 2 = 1 THEN "human" ELSE "assistant")

\* three requests answered one after another on one fresh thread, the second
\* of them a failure: six turns, in request order
C10_Witness ==
    \E t \in DOMAIN conversation_histories :
        /\ Len(conversation_histories[t]) = 6
        /\ conversation_histories[t][1] = <<"human", <<"q1">> >>
        /\ conversation_histories[t][2] = <<"assistant", <<"a1">> >>
        /\ conversation_histories[t][3] = <<"human", <<"q2">> >>
        /\ conversation_histories[t][4] =
               <<"assistant", <<"Error processing request: ", "LLMTransportError">> >>
        /\ conversation_histories[t][5] = <<"human", <<"q1">> >>

----------------------------------------------------------------------------
(* Properties of the history handed to the agent *)

\* the turns request r's executor reads when the store holds histories
TurnsRead(histories, r) ==
    IF r.chat_history.kind = "stored" THEN histories[r.chat_history.thread_id] ELSE <<>>

\* the turns stored for thread t (none when the thread is not in the store)
Stored(t) == get(conversation_histories, t, <<>>)

\* another request than i is waiting for the agent on thread t
OtherInFlightOn(i, t) ==
    \E j \in RequestIds \ {i} :
        InFlight(j) /\ IsInvocation(requests[j]) /\ requests[j].body.thread_id = t

\* C11: follow-up context.  A request received on a thread on which no other
\* request is in flight is started with exactly the turns stored for that
\* thread, two for each request answered before it and without its own
\* question, which is stored only when the agent returned; and while it is the
\* only request in flight on its thread the turns its executor reads stay the
\* same.
C11_FollowUpContext ==
    /\ [][\A i \in RequestIds :
             (Received(i) /\ InFlight(i)' /\ IsInvocation(requests'[i])) =>
                 LET t == requests'[i].body.thread_id IN
                 ~OtherInFlightOn(i, t) =>
                     /\ TurnsRead(conversation_histories', requests'[i]) = Stored(t)
                     /\ Len(Stored(t)) = 2 * Cardinality(Answered(t))
                     /\ conversation_histories'[t] = Stored(t)]_vars
    /\ [][\A i \in RequestIds :
             (InFlight(i) /\ InFlight(i)' /\ IsInvocation(requests[i])) =>
                 (~OtherInFlightOn(i, requests[i].body.thread_id) =>
                      TurnsRead(conversation_histories', requests'[i]) =
                          TurnsRead(conversation_histories, requests[i]))]_vars

\* the second request of the chat test: the first was answered, and the
\* executor of the second reads its two turns and not the second question
C11_Witness ==
    /\ Done(1) /\ IsInvocation(requests[1])
    /\ InFlight(2) /\ IsInvocation(requests[2])
    /\ requests[2].body = [thread_id |-> 123, question |-> <<"q2">>]
    /\ requests[2].iterations = 1
    /\ requests[3].pc = "idle"
    /\ ChatHistoryOf(requests[2]) =
           << <<"human", <<"q1">> >>, <<"assistant", <<"a1">> >> >>

\* C12: a failure of the agent is a 200 on /invocations.  With the agent
\* initialized, a request whose executor raised is answered with HTTP 200 and a
\* body with success = false and the error detail; every answer of the agent
\* is passed on with status 200, and no /invocations request is answered with
\* 500, as no exception leaves achat.
C12_AgentFailureIs200 ==
    \A i \in RequestIds :
        (IsInvocation(requests[i]) /\ Done(i)) =>
            /\ requests[i].response.status_code # HTTP_500_INTERNAL_SERVER_ERROR
            /\ AgentReturned(i) =>
                   /\ requests[i].response.status_code = HTTP_200_OK
                   /\ requests[i].response.body.success = requests[i].result["success"]
                   /\ requests[i].response.body.response = requests[i].result["output"]
                   /\ requests[i].response.body.error =
                          get(requests[i].result, "error", "None")
            /\ requests[i].outcome = "raise" =>
                   /\ requests[i].response.status_code = HTTP_200_OK
                   /\ requests[i].response.body.success = FALSE
                   /\ requests[i].response.body.error \in Exceptions

\* the executor of a chat request raised and the client got a 200 with
\* success = false and the error
C12_Witness ==
    \E i \in RequestIds :
        /\ IsInvocation(requests[i]) /\ Done(i)
        /\ agent = "BinanceLangChainAgent"
        /\ requests[i].outcome = "raise"
        /\ requests[i].response.status_code = HTTP_200_OK
        /\ requests[i].response.body.success = FALSE
        /\ requests[i].response.body.error = "LLMTransportError"

\* the historical-data adapter was called: its request to the exchange is built
HistoricalCalled == "name" \in DOMAIN tool_call /\ tool_call.name = "get_historical_data"

\* C13: get_klines clamps the candle count.  The limit of the request sent to
\* the exchange is 1000 for every requested limit above 1000 and the requested
\* limit itself for every limit of at most 1000.
C13_LimitClamped ==
    HistoricalCalled =>
        /\ tool_call.limit > 1000 => tool_call.request.params.limit = 1000
        /\ tool_call.limit <= 1000 => tool_call.request.params.limit = tool_call.limit

\* 1001 candles were asked for, 1000 were requested from the exchange, and the
\* adapter returned
C13_Witness ==
    /\ HistoricalCalled
    /\ Called
    /\ tool_call.limit = 1001
    /\ tool_call.request.params.limit = 1000

\* the candles the exchange returned to the historical-data adapter
Klines == tool_call.reply.json

\* the exchange returned candles the adapter can summarise: at least one, each
\* with its six fields, the first with an open price other than zero
Summarisable ==
    /\ HistoricalCalled /\ Called
    /\ tool_call.reply.kind = "response" /\ tool_call.reply.status_code = 200
    /\ Len(Klines) > 0
    /\ \A n \in 1..Len(Klines) : CandleOk(Klines[n])
    /\ Klines[1][2] # 0

\* C14: the statistics cover the whole returned window.  For every non-empty
\* sequence of candles the exchange returned (with a first open price other
\* than zero, the case of C15), the adapter reports the number of candles, the
\* greatest high, the least low, the mean volume and the change from the first
\* open to the last close of the whole sequence, and shows its last
\* min(10, length) candles in their order.
C14_StatisticsOverWholeWindow ==
    Summarisable =>
        /\ observation.kind = "json"
        /\ LET v == observation.value
               stats == observation.value.statistics
               shown == observation.value.recent_candles
               N == Len(Klines)
           IN /\ v.total_candles = N
              /\ \A n \in 1..N : Klines[n][3] <= stats.highest_price
              /\ \E n \in 1..N : Klines[n][3] = stats.highest_price
              /\ \A n \in 1..N : Klines[n][4] >= stats.lowest_price
              /\ \E n \in 1..N : Klines[n][4] = stats.lowest_price
              /\ stats.average_volume = [num |-> Sum(Column(Klines, 6)), den |-> N]
              /\ stats.price_change = Klines[N][5] - Klines[1][2]
              /\ stats.price_change_percent =
                     [num |-> (Klines[N][5] - Klines[1][2]) * 100, den |-> Klines[1][2]]
              /\ Len(shown) = min(RecentCandlesShown, N)
              /\ \A n \in 1..Len(shown) :
                     LET k == Klines[N - Len(shown) + n] IN
                     shown[n] = [timestamp |-> k[1], open |-> k[2], high |-> k[3],
                                 low |-> k[4], close |-> k[5], volume |-> k[6]]

\* twelve candles were returned; the greatest high and the least low are in
\* the first one, which is not among the ten shown
C14_Witness ==
    /\ Summarisable
    /\ Len(Klines) = 12
    /\ Klines[1] = <<2, 12, 30, 4, 18, 300>>
    /\ \A n \in 2..12 : Klines[n] = <<1, 10, 20, 5, 15, 100>>
    /\ Len(observation.value.recent_candles) = 10
    /\ observation.value.statistics.highest_price = 30
    /\ observation.value.statistics.lowest_price = 4
    /\ observation.value.statistics.average_volume = [num |-> 1400, den |-> 12]

\* the exchange returned well-formed candles, the first with an open price of 0
FirstOpenIsZero ==
    /\ HistoricalCalled /\ Called
    /\ tool_call.reply.kind = "response" /\ tool_call.reply.status_code = 200
    /\ Len(Klines) > 0
    /\ \A n \in 1..Len(Klines) : CandleOk(Klines[n])
    /\ Klines[1][2] = 0

\* C15: a zero first open is an error.  When the first candle's open price is
\* zero the adapter returns its error text, and no summary it returns holds a
\* percent change with a zero divisor.
C15_ZeroOpenIsError ==
    /\ FirstOpenIsZero =>
           /\ observation.kind = "text"
           /\ ContainsError(observation)
    /\ (HistoricalCalled /\ Called /\ observation.kind = "json") =>
           observation.value.statistics.price_change_percent.den # 0

\* two candles were returned, the first opening at 0, and the adapter
\* returned the error text of the division
C15_Witness ==
    /\ FirstOpenIsZero
    /\ Len(Klines) = 2
    /\ Klines[2][2] # 0
    /\ observation = Text(<<"Error", " getting historical data for ",
                            tool_call.symbol, ": ", "ZeroDivisionError">>)

----------------------------------------------------------------------------
(* Properties of concurrent requests on one thread *)

\* requests i and j are both waiting for the agent on the same thread
RaceOn(i, j) ==
    /\ i # j
    /\ InFlight(i) /\ IsInvocation(requests[i])
    /\ InFlight(j) /\ IsInvocation(requests[j])
    /\ requests[i].body.thread_id = requests[j].body.thread_id

\* the next step can be the one in which request i gets its answer and
\* appends its two turns
CanAppendNext(i) == ENABLED (\E result \in ExecutorReturns : ModelAnswers(i, result))

\* C16: same-thread race.  Whenever two /invocations requests on one thread
\* are in flight together, either of them can be the next to append its turns,
\* whichever arrived first, and the turns each of them reads are turns of
\* answered requests only: neither reads the other's question.
C16_SameThreadRace ==
    \A i, j \in RequestIds :
        RaceOn(i, j) =>
            LET t == requests[i].body.thread_id IN
            /\ CanAppendNext(i)
            /\ CanAppendNext(j)
            /\ Len(ChatHistoryOf(requests[i])) <= 2 * Cardinality(Answered(t))
            /\ Len(ChatHistoryOf(requests[j])) <= 2 * Cardinality(Answered(t))
            /\ IsPrefix(ChatHistoryOf(requests[i]), conversation_histories[t])
            /\ IsPrefix(ChatHistoryOf(requests[j]), conversation_histories[t])

\* requests 1 and 2 were both started on the fresh thread 123 with an empty
\* history; the second was answered first, so that its turns are stored ahead
\* of those of the first, which still reads an empty history
C16_Witness ==
    /\ InFlight(1) /\ IsInvocation(requests[1])
    /\ requests[1].body = [thread_id |-> 123, question |-> <<"q1">>]
    /\ ChatHistoryOf(requests[1]) = <<>>
    /\ Done(2) /\ IsInvocation(requests[2]) /\ AgentReturned(2)
    /\ requests[2].response.body.thread_id = 123
    /\ conversation_histories[123] =
           << <<"human", <<"q2">> >>, <<"assistant", <<"a1">> >> >>
    /\ requests[3].pc = "idle"

\* the two turns request i stores when the agent returned result
TurnsOf(r, result) ==
    << <<"human", r.body.question>>, <<"assistant", result["output"]>> >>

\* C17: the two turns of a request are appended atomically.  Under every
\* interleaving, a step changes a stored history only by appending the
\* (human, question), (assistant, reply) pair of the one request that resumed
\* in it, to one thread; so every stored history has even length and is a
\* sequence of such adjacent pairs, never a human turn followed by a turn of
\* another request.
C17_PairsAppendedAtomically ==
    /\ [][\A t \in DOMAIN conversation_histories' :
             \/ conversation_histories'[t] = Stored(t)
             \/ \E i \in RequestIds :
                   /\ Resumed(i) /\ IsInvocation(requests[i]) /\ Done(i)'
                   /\ requests[i].body.thread_id = t
                   /\ conversation_histories'[t] =
                          Stored(t) \o TurnsOf(requests[i], requests'[i].result)
                   /\ \A u \in DOMAIN conversation_histories' \ {t} :
                          conversation_histories'[u] = Stored(u)]_vars
    /\ [](\A t \in DOMAIN conversation_histories :
             LET h == conversation_histories[t] IN
             /\ Len(h) % 2 = 0
             /\ \A k \in 1..Len(h) :
                    k % 2 = 1 =>
                        /\ h[k][1] = "human" /\ h[k][2] \in Questions
                        /\ h[k + 1][1] = "assistant")

\* request 1 waits on thread 123 while requests 2 and 3, received after it on
\* the same thread, were answered: their four turns are stored as two pairs
C17_Witness ==
    /\ InFlight(1) /\ IsInvocation(requests[1])
    /\ requests[1].body.thread_id = 123
    /\ requests[1].iterations = 2
    /\ \A j \in {2, 3} :
           /\ AgentReturned(j) /\ IsInvocation(requests[j])
           /\ requests[j].response.body.thread_id = 123
    /\ conversation_histories[123] =
           << <<"human", <<"q2">> >>, <<"assistant", <<"a1">> >>,
              <<"human", <<"q1">> >>,
              <<"assistant", <<"Error processing request: ", "LLMTransportError">> >> >>

\* C18 (as stated): the history handed to an agent invocation is a fixed
\* snapshot.  In every step in which an /invocations request stays in flight,
\* the turns its executor reads as its chat history are the same after the
\* step as before it, whatever other request completed in the step.
C18_HistoryIsSnapshot ==
    [][\A i \in RequestIds :
          (InFlight(i) /\ InFlight(i)' /\ IsInvocation(requests[i])) =>
              TurnsRead(conversation_histories', requests'[i]) =
                  TurnsRead(conversation_histories, requests[i])]_vars

====
